---- MODULE Spec2Model ----
(***************************************************************************)
(* Object mappings of subspace-core-primitives (objects.rs): BlockObject,  *)
(* PieceObject, GlobalObject and the two mapping containers, with the      *)
(* operations their derives and impl blocks provide: SCALE encode/decode,  *)
(* the accessors, the derived equality / ordering / hashing and the serde  *)
(* rendering.                                                              *)
(*                                                                         *)
(* Representation.  A u8 is a number 0..255, a [u8; 3] a 3-tuple of u8, a  *)
(* u16 a number 0..65535.  A u64 is a 4-tuple of 16-bit limbs, least       *)
(* significant limb first (TLC evaluates 32-bit integers), so              *)
(* every u64 up to 2^64-1 is representable.  A byte buffer is a sequence   *)
(* of u8.                                                                  *)
(***************************************************************************)
EXTENDS Integers, Sequences, FiniteSets, TLC

VARIABLES kind, x, y, pc, input, result, out

vars == <<kind, x, y, pc, input, result, out>>

(***************************************************************************)
(* Bounds and input samples                                                *)
(***************************************************************************)
NumBytes == 3
NumU16 == 4
NumU64 == 3
NumOrdArr == 4
MaxObjects == 2
NumElemVals == 2
MaxExtra == 1

ByteTable == <<0, 255, 10, 1, 128, 2, 7, 200>>
U16Table == <<0, 100, 256, 65535, 1, 255, 4660>>
U64Table ==
  << <<0, 0, 0, 0>>, <<5, 0, 0, 0>>, <<65535, 65535, 65535, 65535>>,
     <<0, 1, 0, 0>>, <<256, 0, 0, 0>>, <<0, 0, 0, 1>> >>
OrdArrTable ==
  << <<0, 0, 0>>, <<0, 1, 0>>, <<1, 0, 0>>, <<10, 0, 0>>,
     <<255, 255, 255>>, <<0, 0, 1>>, <<1, 1, 0>> >>
OrdU64Table ==
  << <<0, 0, 0, 0>>, <<5, 0, 0, 0>>, <<0, 1, 0, 0>>,
     <<65535, 65535, 65535, 65535>>, <<256, 0, 0, 0>>, <<0, 0, 0, 1>> >>

Min(a, b) == IF a < b THEN a ELSE b

ByteSample == {ByteTable[i] : i \in 1..Min(NumBytes, Len(ByteTable))}
U16Sample == {U16Table[i] : i \in 1..Min(NumU16, Len(U16Table))}
U64Sample == {U64Table[i] : i \in 1..Min(NumU64, Len(U64Table))}
OrdArrSample == {OrdArrTable[i] : i \in 1..Min(NumOrdArr, Len(OrdArrTable))}
Arr3Sample == [1..3 -> ByteSample] \cup OrdArrSample
OrdU64Sample == {OrdU64Table[i] : i \in 1..Min(NumU64, Len(OrdU64Table))}

(***************************************************************************)
(* The record types                                                        *)
(***************************************************************************)
BlockObjectV0(offset, size) ==
  [ty |-> "BlockObject", variant |-> "V0", offset |-> offset, size |-> size]

PieceObjectV0(offset, size) ==
  [ty |-> "PieceObject", variant |-> "V0", offset |-> offset, size |-> size]

GlobalObjectV0(piece_index, offset, size) ==
  [ty |-> "GlobalObject", variant |-> "V0", piece_index |-> piece_index,
   offset |-> offset, size |-> size]

\* Default::default() of BlockObjectMapping / PieceObjectMapping: objects is
\* the empty Vec.
DefaultMapping(ty) == [ty |-> ty, objects |-> <<>>]

RecordKinds == {"BlockObject", "PieceObject", "GlobalObject"}
MappingKinds == {"BlockObjectMapping", "PieceObjectMapping"}

ElementKind(k) ==
  IF k = "BlockObjectMapping" THEN "BlockObject" ELSE "PieceObject"

Records(k, arrs, u16s, u64s) ==
  CASE k = "BlockObject" ->
         {BlockObjectV0(o, s) : o \in arrs, s \in arrs}
    [] k = "PieceObject" ->
         {PieceObjectV0(o, s) : o \in u16s, s \in arrs}
    [] k = "GlobalObject" ->
         {GlobalObjectV0(p, o, s) : p \in u64s, o \in u16s, s \in arrs}

\* The records pushed into a mapping.
ElementRecords(k) ==
  Records(k, {OrdArrTable[i] : i \in 1..Min(NumElemVals, Len(OrdArrTable))},
          {U16Table[i] : i \in 1..Min(NumElemVals, Len(U16Table))}, {})

AllRecords(k) == Records(k, Arr3Sample, U16Sample, U64Sample)
OrdRecords(k) == Records(k, OrdArrSample, U16Sample, OrdU64Sample)

(***************************************************************************)
(* SCALE codec: primitives                                                 *)
(***************************************************************************)
Ok(v, rest) == [ok |-> TRUE, value |-> v, rest |-> rest, err |-> "none"]
Err(e) == [ok |-> FALSE, value |-> <<>>, rest |-> <<>>, err |-> e]

Drop(s, n) == SubSeq(s, n + 1, Len(s))

\* <u8 as Encode>: the byte itself.
EncodeU8(b) == <<b>>

\* <[u8; 3] as Encode>: the three bytes in index order, no length prefix.
EncodeArr3(a) == EncodeU8(a[1]) \o EncodeU8(a[2]) \o EncodeU8(a[3])

EncodeU16BigEndian(v) == <<v \div 256, v % 256>>

\* <u16 as Encode>: to_le_bytes.
EncodeU16(v) == <<v % 256, v \div 256>>

\* <u64 as Encode>: to_le_bytes, limb by limb from the least significant.
EncodeU64(v) ==
  EncodeU16(v[1]) \o EncodeU16(v[2]) \o EncodeU16(v[3]) \o EncodeU16(v[4])

\* Input::read_byte on a byte slice.
ReadByte(inp) ==
  IF Len(inp) < 1 THEN Err("NotEnoughData") ELSE Ok(inp[1], Drop(inp, 1))

\* Input::read of n bytes on a byte slice.
ReadBytes(inp, n) ==
  IF Len(inp) < n THEN Err("NotEnoughData")
  ELSE Ok(SubSeq(inp, 1, n), Drop(inp, n))

DecodeArr3(inp) == ReadBytes(inp, 3)

\* <u16 as Decode>: from_le_bytes of two bytes.
DecodeU16(inp) ==
  LET r == ReadBytes(inp, 2) IN
  IF ~r.ok THEN r ELSE Ok(r.value[1] + 256 * r.value[2], r.rest)

\* <u64 as Decode>: from_le_bytes of eight bytes.
DecodeU64(inp) ==
  LET r == ReadBytes(inp, 8) IN
  IF ~r.ok THEN r
  ELSE Ok(<<r.value[1] + 256 * r.value[2], r.value[3] + 256 * r.value[4],
            r.value[5] + 256 * r.value[6], r.value[7] + 256 * r.value[8]>>,
          r.rest)

EncodeCompactLenPlain(n) == <<n>>

\* Compact<u32> length prefix of a Vec.
EncodeCompactLen(n) ==
  IF n < 64 THEN <<4 * n>>
  ELSE IF n < 16384 THEN <<(4 * n + 1) % 256, (4 * n + 1) \div 256>>
  ELSE IF n < 1073741824
       THEN <<(4 * (n % 64)) + 2, (n \div 64) % 256, (n \div 16384) % 256,
              (n \div 4194304) % 256>>
  ELSE <<3, n % 256, (n \div 256) % 256, (n \div 65536) % 256,
         (n \div 16777216) % 256>>

DecodeCompactLen(inp) ==
  LET p == ReadByte(inp) IN
  IF ~p.ok THEN p
  ELSE
    CASE p.value % 4 = 0 -> Ok(p.value \div 4, p.rest)
      [] p.value % 4 = 1 ->
           LET r == ReadBytes(p.rest, 1) IN
           IF ~r.ok THEN r
           ELSE LET v == (p.value \div 4) + 64 * r.value[1] IN
                IF v > 63 THEN Ok(v, r.rest) ELSE Err("OutOfRange")
      [] p.value % 4 = 2 ->
           LET r == ReadBytes(p.rest, 3) IN
           IF ~r.ok THEN r
           ELSE LET v == (p.value \div 4) + 64 * r.value[1]
                           + 16384 * r.value[2] + 4194304 * r.value[3] IN
                IF v > 16383 THEN Ok(v, r.rest) ELSE Err("OutOfRange")
      [] OTHER ->
           IF p.value \div 4 # 0 THEN Err("UnexpectedPrefix")
           ELSE LET r == ReadBytes(p.rest, 4) IN
                IF ~r.ok THEN r
                ELSE LET v == r.value[1] + 256 * r.value[2]
                                + 65536 * r.value[3] + 16777216 * r.value[4] IN
                     IF r.value[4] >= 64 THEN Ok(v, r.rest)
                     ELSE Err("OutOfRange")

(***************************************************************************)
(* SCALE codec: the derived impls                                          *)
(***************************************************************************)
\* #[codec(index = 0)] on V0.
V0Index == 0

EncodeBlockObject(o) ==
  EncodeU8(V0Index) \o EncodeArr3(o.offset) \o EncodeArr3(o.size)

EncodePieceObject(o) ==
  EncodeU8(V0Index) \o EncodeU16(o.offset) \o EncodeArr3(o.size)

EncodeGlobalObject(o) ==
  EncodeU8(V0Index) \o EncodeU64(o.piece_index) \o EncodeU16(o.offset)
    \o EncodeArr3(o.size)

EncodeRecord(o) ==
  CASE o.ty = "BlockObject" -> EncodeBlockObject(o)
    [] o.ty = "PieceObject" -> EncodePieceObject(o)
    [] o.ty = "GlobalObject" -> EncodeGlobalObject(o)

DecodeBlockObject(inp) ==
  LET t == ReadByte(inp) IN
  IF ~t.ok THEN Err("NoVariantByte")
  ELSE IF t.value # V0Index THEN Err("UnknownVariant")
  ELSE LET o == DecodeArr3(t.rest) IN
       IF ~o.ok THEN o
       ELSE LET s == DecodeArr3(o.rest) IN
            IF ~s.ok THEN s
            ELSE Ok(BlockObjectV0(o.value, s.value), s.rest)

DecodePieceObjectAnyTag(inp) ==
  LET t == ReadByte(inp) IN
  IF ~t.ok THEN Err("NoVariantByte")
  ELSE LET o == DecodeU16(t.rest) IN
       IF ~o.ok THEN o
       ELSE LET s == DecodeArr3(o.rest) IN
            IF ~s.ok THEN s
            ELSE Ok(PieceObjectV0(o.value, s.value), s.rest)

DecodePieceObject(inp) ==
  LET t == ReadByte(inp) IN
  IF ~t.ok THEN Err("NoVariantByte")
  ELSE IF t.value # V0Index THEN Err("UnknownVariant")
  ELSE LET o == DecodeU16(t.rest) IN
       IF ~o.ok THEN o
       ELSE LET s == DecodeArr3(o.rest) IN
            IF ~s.ok THEN s
            ELSE Ok(PieceObjectV0(o.value, s.value), s.rest)

DecodeGlobalObject(inp) ==
  LET t == ReadByte(inp) IN
  IF ~t.ok THEN Err("NoVariantByte")
  ELSE IF t.value # V0Index THEN Err("UnknownVariant")
  ELSE LET p == DecodeU64(t.rest) IN
       IF ~p.ok THEN p
       ELSE LET o == DecodeU16(p.rest) IN
            IF ~o.ok THEN o
            ELSE LET s == DecodeArr3(o.rest) IN
                 IF ~s.ok THEN s
                 ELSE Ok(GlobalObjectV0(p.value, o.value, s.value), s.rest)

DecodeRecordAll(k, inp) ==
  LET r == CASE k = "BlockObject" -> DecodeBlockObject(inp)
             [] k = "PieceObject" -> DecodePieceObject(inp)
             [] k = "GlobalObject" -> DecodeGlobalObject(inp)
  IN IF r.ok /\ r.rest # <<>> THEN Err("TrailingData") ELSE r

DecodeRecord(k, inp) ==
  CASE k = "BlockObject" -> DecodeBlockObject(inp)
    [] k = "PieceObject" -> DecodePieceObject(inp)
    [] k = "GlobalObject" -> DecodeGlobalObject(inp)

\* <Vec<T> as Encode>: compact length, then the elements in index order.
RECURSIVE EncodeElements(_)
EncodeElements(objs) ==
  IF objs = <<>> THEN <<>>
  ELSE EncodeRecord(Head(objs)) \o EncodeElements(Tail(objs))

EncodeVec(objs) == EncodeCompactLen(Len(objs)) \o EncodeElements(objs)

\* The derived Encode of the mapping structs: the single field `objects`.
EncodeMapping(m) == EncodeVec(m.objects)

RECURSIVE DecodeElementsReversed(_, _, _, _)
DecodeElementsReversed(k, n, inp, acc) ==
  IF n = 0 THEN Ok(acc, inp)
  ELSE LET e == DecodeRecord(k, inp) IN
       IF ~e.ok THEN e
       ELSE DecodeElementsReversed(k, n - 1, e.rest, <<e.value>> \o acc)

\* <Vec<T> as Decode>: compact length, then that many elements in turn.
RECURSIVE DecodeElements(_, _, _, _)
DecodeElements(k, n, inp, acc) ==
  IF n = 0 THEN Ok(acc, inp)
  ELSE LET e == DecodeRecord(k, inp) IN
       IF ~e.ok THEN e
       ELSE DecodeElements(k, n - 1, e.rest, Append(acc, e.value))

DecodeVec(k, inp) ==
  LET n == DecodeCompactLen(inp) IN
  IF ~n.ok THEN n ELSE DecodeElements(k, n.value, n.rest, <<>>)

DecodeMapping(k, inp) ==
  LET v == DecodeVec(ElementKind(k), inp) IN
  IF ~v.ok THEN v ELSE Ok([ty |-> k, objects |-> v.value], v.rest)

Encode(v) ==
  IF v.ty \in RecordKinds THEN EncodeRecord(v) ELSE EncodeMapping(v)

Decode(k, inp) ==
  IF k \in RecordKinds THEN DecodeRecord(k, inp) ELSE DecodeMapping(k, inp)

(***************************************************************************)
(* Codec harness: a value is built, encoded, and a buffer is decoded       *)
(***************************************************************************)
NoValue == [ty |-> "None"]
NoResult == [ok |-> FALSE, value |-> <<>>, rest |-> <<>>, err |-> "unset"]

TypeOK ==
  /\ kind \in RecordKinds \cup MappingKinds
  /\ pc \in {"default", "new", "encoded", "decoded", "called", "compared",
             "serialized"}
  /\ input \in Seq(0..255)
  /\ result.ok \in BOOLEAN

\* Byte strings of length 1..MaxExtra over the byte sample.
ExtraBytes == UNION {[1..n -> ByteSample] : n \in 1..MaxExtra}

Retag(buf, t) == IF buf = <<>> THEN buf ELSE <<t>> \o Tail(buf)

\* The buffers a decoder is handed: the encoding itself, every proper prefix
\* of it, each of those with another first byte, and the encoding (with either
\* first byte) followed by extra bytes.
WireBuffers(enc) ==
  LET firsts == ByteSample \cup {IF enc = <<>> THEN V0Index ELSE enc[1]} IN
    {Retag(SubSeq(enc, 1, n), t) : n \in 0..Len(enc), t \in firsts}
      \cup {Retag(enc, t) \o e : t \in firsts, e \in ExtraBytes}

Init ==
  /\ kind \in RecordKinds \cup MappingKinds
  /\ IF kind \in RecordKinds
       THEN x \in AllRecords(kind) /\ pc = "new"
       ELSE x = DefaultMapping(kind) /\ pc = "default"
  /\ y = NoValue
  /\ input = <<>>
  /\ result = NoResult
  /\ out = <<>>

\* Vec::push on the public `objects` field of a mapping.
Push(o) ==
  /\ kind \in MappingKinds
  /\ pc \in {"default", "new"}
  /\ Len(x.objects) < MaxObjects
  /\ x' = [x EXCEPT !.objects = Append(@, o)]
  /\ pc' = "new"
  /\ UNCHANGED <<kind, y, input, result, out>>

\* Encode::encode of the value.
EncodeStep ==
  /\ pc \in {"default", "new"}
  /\ out' = Encode(x)
  /\ pc' = "encoded"
  /\ UNCHANGED <<kind, x, y, input, result>>

\* Decode::decode of a buffer as the value's type.
DecodeStep(buf) ==
  /\ pc = "encoded"
  /\ input' = buf
  /\ result' = Decode(kind, buf)
  /\ pc' = "decoded"
  /\ UNCHANGED <<kind, x, y, out>>

Next ==
  \/ \E o \in ElementRecords(ElementKind(kind)) : Push(o)
  \/ EncodeStep
  \/ \E buf \in WireBuffers(out) : DecodeStep(buf)

Spec == Init /\ [][Next]_vars

(***************************************************************************)
(* Accessors                                                               *)
(***************************************************************************)
NumV24 == 4
V24Table == <<0, 16777215, 256, 65536, 10, 65535, 1>>
V24Sample == {V24Table[i] : i \in 1..Min(NumV24, Len(V24Table))}

\* The packed-24 writer of the data model: the three low bytes of v, least
\* significant first.
Pack24(v) == <<v % 256, (v \div 256) % 256, (v \div 65536) % 256>>

AccessArrSample == Arr3Sample \cup {Pack24(v) : v \in V24Sample}
AccessRecords(k) == Records(k, AccessArrSample, U16Sample, U64Sample)

\* u32::from_le_bytes.
FromLeBytesU32(b) == b[1] + 256 * b[2] + 65536 * b[3] + 16777216 * b[4]

BlockObject_offset(o) ==
  FromLeBytesU32(<<o.offset[1], o.offset[2], o.offset[3], 0>>)

BlockObject_size(o) == FromLeBytesU32(<<o.size[1], o.size[2], o.size[3], 0>>)

PieceObject_offset(o) == o.offset

PieceObject_size(o) == FromLeBytesU32(<<o.size[1], o.size[2], o.size[3], 0>>)

GlobalObject_piece_index(o) == o.piece_index

GlobalObject_offset(o) == o.offset

GlobalObject_size_swapped(o) == o.offset

GlobalObject_size(o) == FromLeBytesU32(<<o.size[1], o.size[2], o.size[3], 0>>)

Returned(fn, ret) ==
  /\ pc = "new"
  /\ out' = [fn |-> fn, ret |-> ret]
  /\ pc' = "called"
  /\ UNCHANGED <<kind, x, y, input, result>>

CallBlockOffset == kind = "BlockObject" /\ Returned("offset", BlockObject_offset(x))
CallBlockSize == kind = "BlockObject" /\ Returned("size", BlockObject_size(x))
CallPieceOffset == kind = "PieceObject" /\ Returned("offset", PieceObject_offset(x))
CallPieceSize == kind = "PieceObject" /\ Returned("size", PieceObject_size(x))
CallGlobalPieceIndex ==
  kind = "GlobalObject" /\ Returned("piece_index", GlobalObject_piece_index(x))
CallGlobalOffset ==
  kind = "GlobalObject" /\ Returned("offset", GlobalObject_offset(x))
CallGlobalSize == kind = "GlobalObject" /\ Returned("size", GlobalObject_size(x))

InitAccess ==
  /\ kind \in RecordKinds
  /\ x \in AccessRecords(kind)
  /\ pc = "new"
  /\ y = NoValue
  /\ input = <<>>
  /\ result = NoResult
  /\ out = <<>>

NextAccess ==
  \/ CallBlockOffset
  \/ CallBlockSize
  \/ CallPieceOffset
  \/ CallPieceSize
  \/ CallGlobalPieceIndex
  \/ CallGlobalOffset
  \/ CallGlobalSize

SpecAccess == InitAccess /\ [][NextAccess]_vars

(***************************************************************************)
(* Derived PartialEq / Eq / PartialOrd / Ord / Hash                         *)
(***************************************************************************)
\* Ord::cmp of two unsigned integers.
CmpInt(a, b) ==
  IF a < b THEN "Less" ELSE IF a = b THEN "Equal" ELSE "Greater"

\* The chaining of the derived cmp: the first field that is not Equal decides.
Then(c, d) == IF c # "Equal" THEN c ELSE d

CmpArr3Numeric(a, b) ==
  Then(CmpInt(a[3], b[3]), Then(CmpInt(a[2], b[2]), CmpInt(a[1], b[1])))

\* Ord for [u8; 3]: lexicographic over the elements from index 0.
CmpArr3(a, b) ==
  Then(CmpInt(a[1], b[1]), Then(CmpInt(a[2], b[2]), CmpInt(a[3], b[3])))

\* Ord for u64: numeric, i.e. from the most significant limb down.
CmpU64(a, b) ==
  Then(CmpInt(a[4], b[4]),
       Then(CmpInt(a[3], b[3]), Then(CmpInt(a[2], b[2]), CmpInt(a[1], b[1]))))

\* PartialEq for [u8; 3]: element-wise.
EqArr3(a, b) == a[1] = b[1] /\ a[2] = b[2] /\ a[3] = b[3]

EqU64(a, b) == a[1] = b[1] /\ a[2] = b[2] /\ a[3] = b[3] /\ a[4] = b[4]

\* The discriminant of the only variant, V0.
Discriminant(o) == IF o.variant = "V0" THEN 0 ELSE 1

BlockObject_eq(a, b) ==
  /\ Discriminant(a) = Discriminant(b)
  /\ EqArr3(a.offset, b.offset)
  /\ EqArr3(a.size, b.size)

PieceObject_eq(a, b) ==
  /\ Discriminant(a) = Discriminant(b)
  /\ a.offset = b.offset
  /\ EqArr3(a.size, b.size)

GlobalObject_eq(a, b) ==
  /\ Discriminant(a) = Discriminant(b)
  /\ EqU64(a.piece_index, b.piece_index)
  /\ a.offset = b.offset
  /\ EqArr3(a.size, b.size)

BlockObject_cmp(a, b) ==
  Then(CmpInt(Discriminant(a), Discriminant(b)),
       Then(CmpArr3(a.offset, b.offset), CmpArr3(a.size, b.size)))

PieceObject_cmp_size_first(a, b) ==
  Then(CmpInt(Discriminant(a), Discriminant(b)),
       Then(CmpArr3(a.size, b.size), CmpInt(a.offset, b.offset)))

PieceObject_cmp(a, b) ==
  Then(CmpInt(Discriminant(a), Discriminant(b)),
       Then(CmpInt(a.offset, b.offset), CmpArr3(a.size, b.size)))

GlobalObject_cmp(a, b) ==
  Then(CmpInt(Discriminant(a), Discriminant(b)),
       Then(CmpU64(a.piece_index, b.piece_index),
            Then(CmpInt(a.offset, b.offset), CmpArr3(a.size, b.size))))

RecordEq(a, b) ==
  CASE a.ty = "BlockObject" -> BlockObject_eq(a, b)
    [] a.ty = "PieceObject" -> PieceObject_eq(a, b)
    [] a.ty = "GlobalObject" -> GlobalObject_eq(a, b)

RecordCmp(a, b) ==
  CASE a.ty = "BlockObject" -> BlockObject_cmp(a, b)
    [] a.ty = "PieceObject" -> PieceObject_cmp(a, b)
    [] a.ty = "GlobalObject" -> GlobalObject_cmp(a, b)

\* PartialOrd::lt through the derived partial_cmp, which is Some(cmp).
RecordLt(a, b) == RecordCmp(a, b) = "Less"

\* Hash for [u8; 3]: the length prefix of the slice, then its bytes.
HashArr3(a) == <<[write |-> "usize", v |-> 3], [write |-> "bytes", v |-> a]>>

\* The derived Hash: the discriminant, then the fields in declared order, as
\* the sequence of writes made into the Hasher.
RecordHash(o) ==
  <<[write |-> "isize", v |-> Discriminant(o)]>>
    \o (IF o.ty = "GlobalObject"
          THEN <<[write |-> "u64", v |-> o.piece_index]>> ELSE <<>>)
    \o (IF o.ty = "BlockObject"
          THEN HashArr3(o.offset) ELSE <<[write |-> "u16", v |-> o.offset]>>)
    \o HashArr3(o.size)

Compared(fn, ret) ==
  /\ pc = "new"
  /\ out' = [fn |-> fn, ret |-> ret]
  /\ pc' = "compared"
  /\ UNCHANGED <<kind, x, y, input, result>>

EqStep == Compared("eq", RecordEq(x, y))
CmpStep == Compared("cmp", RecordCmp(x, y))
LtStep == Compared("lt", RecordLt(x, y))
HashStep == Compared("hash", <<RecordHash(x), RecordHash(y)>>)

InitOrd ==
  /\ kind \in RecordKinds
  /\ x \in OrdRecords(kind)
  /\ y \in OrdRecords(kind)
  /\ pc = "new"
  /\ input = <<>>
  /\ result = NoResult
  /\ out = <<>>

NextOrd == EqStep \/ CmpStep \/ LtStep \/ HashStep

SpecOrd == InitOrd /\ [][NextOrd]_vars

(***************************************************************************)
(* serde: the derived Serialize and its rendering                          *)
(*                                                                         *)
(* A name is a sequence of one-character strings, so that the renaming     *)
(* rules can be applied character by character.                            *)
(***************************************************************************)
LowerChars ==
  <<"a", "b", "c", "d", "e", "f", "g", "h", "i", "j", "k", "l", "m",
    "n", "o", "p", "q", "r", "s", "t", "u", "v", "w", "x", "y", "z">>
UpperChars ==
  <<"A", "B", "C", "D", "E", "F", "G", "H", "I", "J", "K", "L", "M",
    "N", "O", "P", "Q", "R", "S", "T", "U", "V", "W", "X", "Y", "Z">>

ToAsciiLowercase(c) ==
  IF \E i \in 1..26 : UpperChars[i] = c
    THEN LowerChars[CHOOSE i \in 1..26 : UpperChars[i] = c]
    ELSE c

ToAsciiUppercase(c) ==
  IF \E i \in 1..26 : LowerChars[i] = c
    THEN UpperChars[CHOOSE i \in 1..26 : LowerChars[i] = c]
    ELSE c

\* RenameRule::PascalCase.apply_to_field: drop each '_' and capitalise the
\* character after it, and the first one.
RECURSIVE PascalCase(_, _)
PascalCase(name, capitalize) ==
  IF name = <<>> THEN <<>>
  ELSE IF Head(name) = "_" THEN PascalCase(Tail(name), TRUE)
  ELSE IF capitalize
         THEN <<ToAsciiUppercase(Head(name))>> \o PascalCase(Tail(name), FALSE)
  ELSE <<Head(name)>> \o PascalCase(Tail(name), FALSE)

\* RenameRule::apply_to_field.
ApplyToField(rule, field) ==
  IF rule = "camelCase"
    THEN LET pascal == PascalCase(field, TRUE) IN
         <<ToAsciiLowercase(Head(pascal))>> \o Tail(pascal)
    ELSE field

\* RenameRule::apply_to_variant.
ApplyToVariant(rule, variant) ==
  IF rule = "camelCase"
    THEN <<ToAsciiLowercase(Head(variant))>> \o Tail(variant)
    ELSE variant

Name_V0 == <<"V", "0">>
Name_v0 == <<"v", "0">>
Name_offset == <<"o", "f", "f", "s", "e", "t">>
Name_size == <<"s", "i", "z", "e">>
Name_piece_index == <<"p", "i", "e", "c", "e", "_", "i", "n", "d", "e", "x">>
Name_pieceIndex == <<"p", "i", "e", "c", "e", "I", "n", "d", "e", "x">>

ContainerRenameAllNone(ty) == "None"

\* #[serde(rename_all = "camelCase")] on the three enums: on an enum the
\* container attribute names the rule for its variants.
ContainerRenameAll(ty) == IF ty \in RecordKinds THEN "camelCase" ELSE "None"

\* V0 carries no serde attribute of its own, and the enums carry no
\* rename_all_fields: no rule for the fields of the variant.
VariantRenameAll(ty) == "None"

\* The fields of V0 in declared order, each with its serialized value.
VariantFields(o) ==
  CASE o.ty = "BlockObject" ->
         <<[name |-> Name_offset, value |-> [ser |-> "tuple", v |-> o.offset]],
           [name |-> Name_size, value |-> [ser |-> "tuple", v |-> o.size]]>>
    [] o.ty = "PieceObject" ->
         <<[name |-> Name_offset, value |-> [ser |-> "u16", v |-> o.offset]],
           [name |-> Name_size, value |-> [ser |-> "tuple", v |-> o.size]]>>
    [] o.ty = "GlobalObject" ->
         <<[name |-> Name_piece_index,
            value |-> [ser |-> "u64", v |-> o.piece_index]],
           [name |-> Name_offset, value |-> [ser |-> "u16", v |-> o.offset]],
           [name |-> Name_size, value |-> [ser |-> "tuple", v |-> o.size]]>>

\* The derived Serialize: serialize_struct_variant(type, index, variant, len)
\* and one serialize_field(key, value) per field.
Serialize(o) ==
  LET fs == VariantFields(o) IN
    [call |-> "serialize_struct_variant",
     name |-> o.ty,
     variant_index |-> 0,
     variant |-> ApplyToVariant(ContainerRenameAll(o.ty), Name_V0),
     fields |-> [i \in 1..Len(fs) |->
                   [key |-> ApplyToField(VariantRenameAll(o.ty), fs[i].name),
                    value |-> fs[i].value]]]

\* The rendering of a struct variant in a self-describing format: a mapping
\* with the variant's name as its only key, holding the mapping of the fields.
Render(ser) ==
  [entries |-> <<[key |-> ser.variant, value |-> [entries |-> ser.fields]]>>]

Keys(mapping) == [i \in 1..Len(mapping.entries) |-> mapping.entries[i].key]

SerializeStep ==
  /\ pc = "new"
  /\ out' = Render(Serialize(x))
  /\ pc' = "serialized"
  /\ UNCHANGED <<kind, x, y, input, result>>

NextSerde == SerializeStep

SpecSerde == InitAccess /\ [][NextSerde]_vars

(***************************************************************************)
(* Properties                                                              *)
(***************************************************************************)
FixedLen(k) ==
  CASE k = "BlockObject" -> 7 [] k = "PieceObject" -> 6 [] k = "GlobalObject" -> 14

\* The first index at which two arrays differ decides, the lower byte first.
ArrLess(a, b) ==
  \E i \in 1..3 : a[i] < b[i] /\ \A j \in 1..(i - 1) : a[j] = b[j]

\* Numeric order of two u64: the most significant limb that differs decides.
U64Less(a, b) ==
  \E i \in 1..4 : a[i] < b[i] /\ \A j \in (i + 1)..4 : a[j] = b[j]

\* Lexicographic order over the fields in declared order.
FieldsLess(a, b) ==
  CASE a.ty = "BlockObject" ->
         \/ ArrLess(a.offset, b.offset)
         \/ a.offset = b.offset /\ ArrLess(a.size, b.size)
    [] a.ty = "PieceObject" ->
         \/ a.offset < b.offset
         \/ a.offset = b.offset /\ ArrLess(a.size, b.size)
    [] a.ty = "GlobalObject" ->
         \/ U64Less(a.piece_index, b.piece_index)
         \/ /\ a.piece_index = b.piece_index
            /\ \/ a.offset < b.offset
               \/ a.offset = b.offset /\ ArrLess(a.size, b.size)

FieldsEqual(a, b) ==
  /\ a.offset = b.offset
  /\ a.size = b.size
  /\ a.ty = "GlobalObject" => a.piece_index = b.piece_index

ExampleBlock == BlockObjectV0(<<0, 0, 0>>, <<10, 0, 0>>)
ExampleGlobal == GlobalObjectV0(<<5, 0, 0, 0>>, 100, <<0, 1, 0>>)

\* C1: decoding the encoding of a value succeeds, consumes all of it and
\* yields the value itself; for a mapping, the same elements in the same order
\* and multiplicity.
C1_RoundTrip ==
  (pc = "decoded" /\ input = out) =>
    /\ result.ok
    /\ result.value = x
    /\ result.rest = <<>>
    /\ kind \in MappingKinds =>
         /\ Len(result.value.objects) = Len(x.objects)
         /\ \A i \in 1..Len(x.objects) : result.value.objects[i] = x.objects[i]

\* A mapping of two elements, the second below the first, has made the round
\* trip.
C1_Witness ==
  /\ pc = "decoded"
  /\ input = out
  /\ kind = "BlockObjectMapping"
  /\ Len(x.objects) = 2
  /\ RecordLt(x.objects[2], x.objects[1])
  /\ result.ok

\* C2: encode(V0) is the tag byte 0 followed by the fields in declared order,
\* arrays as they are and integers little-endian: 7, 6 and 14 bytes; the
\* example block object encodes as [0,0,0,0,10,0,0].
C2_Layout ==
  (pc \in {"encoded", "decoded"} /\ kind \in RecordKinds) =>
    /\ Len(out) = FixedLen(kind)
    /\ out[1] = 0
    /\ kind = "BlockObject" =>
         out = <<0, x.offset[1], x.offset[2], x.offset[3],
                 x.size[1], x.size[2], x.size[3]>>
    /\ kind = "PieceObject" =>
         out = <<0, x.offset % 256, x.offset \div 256,
                 x.size[1], x.size[2], x.size[3]>>
    /\ kind = "GlobalObject" =>
         out = <<0,
                 x.piece_index[1] % 256, x.piece_index[1] \div 256,
                 x.piece_index[2] % 256, x.piece_index[2] \div 256,
                 x.piece_index[3] % 256, x.piece_index[3] \div 256,
                 x.piece_index[4] % 256, x.piece_index[4] \div 256,
                 x.offset % 256, x.offset \div 256,
                 x.size[1], x.size[2], x.size[3]>>
    /\ (kind = "BlockObject" /\ x = ExampleBlock) =>
         out = <<0, 0, 0, 0, 10, 0, 0>>

C2_Witness ==
  /\ pc = "encoded"
  /\ kind = "BlockObject"
  /\ x = ExampleBlock
  /\ out = <<0, 0, 0, 0, 10, 0, 0>>

\* C3: decode of a record returns a value only when the first byte is 0 and
\* the buffer holds at least the fixed length; any other first byte, and any
\* shorter buffer, gives an error and no value.
C3_Rejects ==
  (pc = "decoded" /\ kind \in RecordKinds) =>
    /\ result.ok =>
         /\ Len(input) >= FixedLen(kind)
         /\ input[1] = 0
         /\ result.value.ty = kind
    /\ (input = <<>> \/ input[1] # 0 \/ Len(input) < FixedLen(kind)) =>
         /\ ~result.ok
         /\ result.value = <<>>

C3_Witness ==
  /\ pc = "decoded"
  /\ kind = "PieceObject"
  /\ Len(input) = 6
  /\ input[1] = 255
  /\ ~result.ok

\* C4 as stated: a valid record encoding followed by extra bytes fails to
\* decode.
C4_TrailingRejected ==
  (/\ pc = "decoded"
   /\ kind \in RecordKinds
   /\ Len(input) > Len(out)
   /\ SubSeq(input, 1, Len(out)) = out) => ~result.ok

\* C4 amended: decode of a valid record encoding followed by extra bytes
\* returns the record and leaves the extra bytes unconsumed in the input.
C4_TrailingLeft ==
  (/\ pc = "decoded"
   /\ kind \in RecordKinds
   /\ Len(input) > Len(out)
   /\ SubSeq(input, 1, Len(out)) = out) =>
    /\ result.ok
    /\ result.value = x
    /\ result.rest = Drop(input, Len(out))
    /\ result.rest # <<>>

C4_Witness ==
  /\ pc = "decoded"
  /\ kind = "GlobalObject"
  /\ Len(input) = 15
  /\ SubSeq(input, 1, 14) = out
  /\ result.ok
  /\ Len(result.rest) = 1

\* C9: a default mapping has no elements and encodes as the single length
\* byte 0; a mapping of n elements encodes as the length prefix of n followed
\* by the n element encodings, 7 or 6 bytes each, in sequence order.
C9_MappingLayout ==
  /\ pc = "default" => x.objects = <<>>
  /\ (pc \in {"encoded", "decoded"} /\ kind \in MappingKinds) =>
       LET n == Len(x.objects)
           w == FixedLen(ElementKind(kind))
       IN /\ out[1] = 4 * n
          /\ Len(out) = 1 + n * w
          /\ n = 0 => out = <<0>>
          /\ \A i \in 1..n :
               SubSeq(out, 2 + (i - 1) * w, 1 + i * w) = EncodeRecord(x.objects[i])

C9_Witness ==
  /\ pc = "encoded"
  /\ kind = "PieceObjectMapping"
  /\ Len(x.objects) = 2
  /\ x.objects[1] # x.objects[2]
  /\ Len(out) = 13

C6_OrderEq ==
  pc = "compared" =>
    /\ out.fn = "eq" => (out.ret <=> FieldsEqual(x, y))
    /\ out.fn = "lt" =>
         /\ out.ret <=> FieldsLess(x, y)
         /\ RecordEq(x, y) => ~out.ret
         /\ (IF out.ret THEN 1 ELSE 0) + (IF RecordEq(x, y) THEN 1 ELSE 0)
              + (IF RecordLt(y, x) THEN 1 ELSE 0) = 1
         /\ \A c \in OrdRecords(kind) :
              (out.ret /\ RecordLt(y, c)) => RecordLt(x, c)
    /\ out.fn = "cmp" =>
         /\ out.ret = "Equal" <=> FieldsEqual(x, y)
         /\ out.ret = "Less" <=> FieldsLess(x, y)
         /\ out.ret = "Greater" <=> FieldsLess(y, x)
    /\ out.fn = "hash" => (RecordEq(x, y) => out.ret[1] = out.ret[2])

\* Two global objects with the same piece index and offset, ordered by size.
C6_Witness ==
  /\ pc = "compared"
  /\ kind = "GlobalObject"
  /\ out.fn = "lt"
  /\ out.ret
  /\ x.piece_index = y.piece_index
  /\ x.offset = y.offset
  /\ x.size # y.size

\* C10: the derived order compares a packed field byte by byte from index 0,
\* which is not the numeric order of the accessor (offset bytes [0,1,0], value
\* 256, sort before [1,0,0], value 1); the native fields compare numerically.
C10_ByteOrder ==
  (pc = "compared" /\ out.fn = "cmp") =>
    /\ (kind = "BlockObject" /\ x.offset # y.offset) =>
         (out.ret = "Less" <=> ArrLess(x.offset, y.offset))
    /\ (kind # "BlockObject" /\ x.offset # y.offset
          /\ (kind = "GlobalObject" => x.piece_index = y.piece_index)) =>
         (out.ret = "Less" <=> x.offset < y.offset)
    /\ (kind = "GlobalObject" /\ x.piece_index # y.piece_index) =>
         (out.ret = "Less" <=> U64Less(x.piece_index, y.piece_index))
    /\ (x.offset = y.offset /\ x.size # y.size
          /\ (kind = "GlobalObject" => x.piece_index = y.piece_index)) =>
         (out.ret = "Less" <=> ArrLess(x.size, y.size))
    /\ (kind = "BlockObject" /\ x.offset = <<0, 1, 0>> /\ y.offset = <<1, 0, 0>>) =>
         /\ out.ret = "Less"
         /\ BlockObject_offset(x) = 256
         /\ BlockObject_offset(y) = 1

C10_Witness ==
  /\ pc = "compared"
  /\ out.fn = "cmp"
  /\ kind = "BlockObject"
  /\ x.offset = <<0, 1, 0>>
  /\ y.offset = <<1, 0, 0>>
  /\ out.ret = "Less"
  /\ BlockObject_offset(x) > BlockObject_offset(y)

FieldKeys(rendered) == Keys(rendered.entries[1].value)

CamelNames(k) ==
  IF k = "GlobalObject" THEN <<Name_pieceIndex, Name_offset, Name_size>>
  ELSE <<Name_offset, Name_size>>

DeclaredNames(k) ==
  IF k = "GlobalObject" THEN <<Name_piece_index, Name_offset, Name_size>>
  ELSE <<Name_offset, Name_size>>

\* C7: the field keys of a rendered record are camel-case: offset and size,
\* and pieceIndex (never piece_index) for a global object.
C7_CamelKeys ==
  pc = "serialized" =>
    /\ FieldKeys(out) = CamelNames(kind)
    /\ \A i \in 1..Len(FieldKeys(out)) : FieldKeys(out)[i] # Name_piece_index

\* C8 as stated: the keys of the rendered top-level mapping are exactly the
\* fields of V0, with no key naming the variant.
C8_NoVariantKey ==
  pc = "serialized" =>
    /\ Len(Keys(out)) = Len(DeclaredNames(kind))
    /\ \A i \in 1..Len(Keys(out)) : Keys(out)[i] # Name_v0 /\ Keys(out)[i] # Name_V0

\* C8 amended: the rendered top-level mapping has exactly one key, the variant
\* name in camel case (v0), and its value is the mapping holding one entry per
\* field of V0 in declared order.
C8_VariantKey ==
  pc = "serialized" =>
    /\ Keys(out) = <<Name_v0>>
    /\ Len(FieldKeys(out)) = Len(DeclaredNames(kind))
    /\ \A i \in 1..Len(FieldKeys(out)) :
         out.entries[1].value.entries[i].value = VariantFields(x)[i].value

C8_Witness ==
  /\ pc = "serialized"
  /\ kind = "PieceObject"
  /\ Keys(out) = <<Name_v0>>
  /\ Len(FieldKeys(out)) = 2

====
